---- MODULE Spec2Model ----
(***************************************************************************)
(* A model of nixos_secrets.py: one run of the command line tool.          *)
(*                                                                         *)
(*   main()  ->  SecretsConfig.__init__  (KeyManager, the parse_queue      *)
(*               loop that builds _secrets and _path_secrets)              *)
(*           ->  args.func(config, args) (encrypt_command, decrypt_command,*)
(*               check_command, generate_command)                          *)
(*           ->  Secret.update_keys / Secret.encrypt / Secret.decrypt,     *)
(*               SecretsConfig.all_secrets, KeyGenerator.generate          *)
(*                                                                         *)
(* The crypto engine (gnupg) and the file system are the environment: the  *)
(* engine's result is a nondeterministic choice among the results it can   *)
(* give, a file is its content, and the process may be interrupted at any  *)
(* step of encrypt()/decrypt().                                            *)
(***************************************************************************)
EXTENDS Integers, Sequences, FiniteSets, TLC

VARIABLES
    keysCfg,        \* config_data['keys']: alias -> key_config
    tree,           \* config_data['secrets']: the node table of the secret tree
    cmd,            \* the sub-command: "encrypt", "decrypt", "check" or "generate"
    files,          \* args.files (a recursive walk is the list os.walk yields)
    recursive,      \* args.recursive with a directory argument
    pc,             \* position of the process
    aliases,        \* KeyManager._aliases
    parse_queue,    \* the deque of SecretsConfig.__init__
    secrets,        \* the Secret objects: SecretsConfig._secrets, then the
                    \* Secret(path, set()) objects decrypt_command constructs
    path_secrets,   \* SecretsConfig._path_secrets: path -> index in secrets, 0 = no entry
    visited,        \* history: the ids of the nodes parse_queue.pop() returned, in order
    argi,           \* index of the loop over args.files
    cur,            \* index in secrets of the Secret being operated on
    ret,            \* where encrypt()/decrypt() returns to
    disk,           \* file name -> file content
    result,         \* the engine's result of the running encrypt()/decrypt()
    err,            \* the exception that ended the process
    disk0,          \* history: the disk when the process started
    call,           \* history: the running update_keys call
    log,            \* history: the update_keys calls that ended
    op,             \* history: the running (or last) encrypt()/decrypt() call
    probe,          \* content handed to _detect_encryption on its own
    verdict,        \* what _detect_encryption answered for probe
    gen_args,       \* generate: args.name and args.key_file
    keyring,        \* the halves of the generated key the keyring holds
    key_files,      \* file name -> what the file holds of the generated key
    key_data,       \* the data gpg.export_keys returned
    dir_names,      \* check: the sub-directories of config.dir, as os.walk lists them
    contents,       \* check: file path -> content of the files under config.dir
    check_dir,      \* check: args.dir, relative to config.dir
    printed,        \* check: the paths printed as not encrypted
    all_encrypted,  \* check: the local of check_command
    yielded,        \* check: history, the paths all_secrets() has yielded
    exit            \* the return code of the command, -1 while there is none

vars == <<keysCfg, tree, cmd, files, recursive, pc, aliases, parse_queue, secrets,
          path_secrets, visited, argi, cur, ret, disk, result, err, disk0, call, log,
          op, probe, verdict, gen_args, keyring, key_files, key_data, dir_names,
          contents, check_dir, printed, all_encrypted, yielded, exit>>

cfgVars == <<keysCfg, tree, cmd, files, recursive, disk0>>
resolveVars == <<aliases, parse_queue, path_secrets, visited>>
runVars == <<argi, cur, ret, disk, result, call, log, op>>
probeVars == <<probe, verdict>>
genVars == <<gen_args, keyring, key_files, key_data>>
checkVars == <<dir_names, contents, check_dir, printed, all_encrypted, yielded, exit>>

----------------------------------------------------------------------------
(* Bounds of the model *)

\* longest args.files
MaxFiles == 3
\* longest content handed to _detect_encryption on its own
MaxProbeLen == 6
\* longest keys list written on a node of the generated secret trees
MaxNodeKeys == 2
\* sub-directories of the configuration directory
MaxDirs == 3

----------------------------------------------------------------------------
(* Helpers *)

Last(s) == s[Len(s)]

Front(s) == SubSeq(s, 1, Len(s) - 1)

Range(s) == {s[k] : k \in 1..Len(s)}

Min(a, b) == IF a < b THEN a ELSE b

RECURSIVE Reverse(_)
Reverse(s) == IF s = <<>> THEN <<>> ELSE Append(Reverse(Tail(s)), Head(s))

\* Sequences over S of length lo..hi
SeqsOf(S, lo, hi) == UNION {[1..n -> S] : n \in lo..hi}

----------------------------------------------------------------------------
(* The keyring of the crypto engine *)

\* fingerprints of the master keys in the keyring
Fingerprints == {"FA", "FB", "FM"}

\* every id by which a key of the keyring can be named: its master fingerprint,
\* a short id of the master key, the id of its encryption subkey
MasterOf(id) ==
    CASE id \in {"FA", "sA", "kA"} -> "FA"
      [] id \in {"FB", "sB", "kB"} -> "FB"
      [] id \in {"FM", "sM", "kM"} -> "FM"
      [] OTHER -> "none"

InKeyring(id) == MasterOf(id) # "none"

\* the id an ENC_TO status line reports for a recipient: its encryption subkey
SubkeyOf(fp) ==
    CASE fp = "FA" -> "kA"
      [] fp = "FB" -> "kB"
      [] fp = "FM" -> "kM"
      [] OTHER -> "kZ"

\* gpg.list_keys(keys=keys): the keys of the keyring that match; an empty
\* list of ids is no filter and lists the whole keyring
ListKeys(keys) ==
    IF keys = {} THEN Fingerprints
    ELSE {MasterOf(k) : k \in {x \in keys : InKeyring(x)}}

\* Secret._get_master_keys
GetMasterKeys(keys) == ListKeys(keys)

----------------------------------------------------------------------------
(* File contents and Secret._detect_encryption *)

\* file.read(32)
HeaderLen == 32

\* header[i] of Python; -1 stands for IndexError
At(header, i) == IF i < Len(header) THEN header[i + 1] ELSE -1

\* body_offset by the length type of an old format packet
BodyOffset(length_type) ==
    CASE length_type = 0 -> 2
      [] length_type = 1 -> 3
      [] length_type = 2 -> 5
      [] OTHER -> 1

\* the body of the try block: "True", "False" or "IndexError"
DetectTry(header) ==
    LET b0 == At(header, 0) IN
    IF b0 = -1 THEN "IndexError"
    ELSE IF (b0 \div 128) % 2 = 0 THEN "False"
    ELSE IF (b0 \div 64) % 2 = 0
    THEN IF (b0 \div 4) % 16 # 1 THEN "False"
         ELSE LET v == At(header, BodyOffset(b0 % 4)) IN
              IF v = -1 THEN "IndexError"
              ELSE IF v # 3 THEN "False" ELSE "True"
    ELSE IF b0 % 64 # 1 THEN "False" ELSE "True"

\* Secret._detect_encryption on a file of these bytes: "True" or "False"
DetectEncryption(bytes) ==
    LET r == DetectTry(SubSeq(bytes, 1, Min(HeaderLen, Len(bytes)))) IN
    IF r = "IndexError" THEN "False" ELSE r

----------------------------------------------------------------------------
(* File contents *)

\* A file content: the plaintext it carries (an index of PlainBytes), the
\* recipients of each encryption layer around it (innermost first; none: the
\* file is plaintext), and whether the content is complete.
Content(pt, layers) == [pt |-> pt, layers |-> layers, whole |-> TRUE]

\* the bytes of the plaintexts: an empty file, text, a plaintext whose first
\* byte reads as a new format packet of tag 1, and a plaintext whose first
\* bytes read as an old format packet of tag 1 and version 3
PlainBytes(pt) ==
    CASE pt = 1 -> <<>>
      [] pt = 2 -> <<104, 105, 10>>
      [] pt = 4 -> <<193, 5, 1>>
      [] OTHER -> <<133, 1, 12, 3, 0>>

\* what the engine writes with armor=False: an old format Public-Key Encrypted
\* Session Key packet (tag byte 0x85, two length bytes, version 3)
CipherBytes == <<133, 2, 12, 3>>

\* no file of that name
Absent == [pt |-> 0, layers |-> <<>>, whole |-> TRUE]

\* a temporary file as NamedTemporaryFile creates it
EmptyFile == [pt |-> 1, layers |-> <<>>, whole |-> FALSE]

\* a content the engine has not finished writing
Partial(c) == [c EXCEPT !.whole = FALSE]

Bytes(c) == IF c.layers = <<>> THEN PlainBytes(c.pt) ELSE CipherBytes

IsEncrypted(c) == c.layers # <<>>

\* the ENC_TO key ids ListPackets.handle_status collects for a file
EncryptedTo(c) == IF c.layers = <<>> THEN {} ELSE Last(c.layers)

\* what _list_packets can collect in encrypted_to: the recipients of an
\* encrypted file; for a plaintext that passed detection, nothing or the
\* key id the engine reads out of its bytes
ListPackets(c) == IF IsEncrypted(c) THEN {EncryptedTo(c)} ELSE {{}, {"kZ"}}

\* master fingerprints the file is encrypted to
Recipients(c) == {MasterOf(k) : k \in EncryptedTo(c)}

\* output of gpg.encrypt_file(file, recipients=keys, armor=False, always_trust=True)
EngineEncrypt(c, keys) ==
    [c EXCEPT !.layers = Append(@, {SubkeyOf(MasterOf(k)) : k \in keys})]

\* output of gpg.decrypt_file(file)
EngineDecrypt(c) == [c EXCEPT !.layers = Front(@)]

\* the engine can encrypt: there is a recipient and the keyring has them all
CanEncrypt(keys) == keys # {} /\ \A k \in keys : InKeyring(k)

\* the engine can decrypt: the file is an encrypted message
CanDecrypt(c) == IsEncrypted(c)

----------------------------------------------------------------------------
(* The configuration *)

AliasNames == {"master", "ops", "dev", "all"}

\* a key_config: a string or a list of strings
Str(s) == [isStr |-> TRUE, str |-> s, list |-> <<>>]

List(l) == [isStr |-> FALSE, str |-> "", list |-> l]

\* wrap_string_list
WrapStringList(iter_or_str) ==
    IF iter_or_str.isStr THEN <<iter_or_str.str>> ELSE iter_or_str.list

\* the dict comprehension of KeyManager.__init__
AliasSets(config) == [alias \in DOMAIN config |-> Range(WrapStringList(config[alias]))]

\* self._aliases['all'] = set.union(*self._aliases.values())
WithAll(a) ==
    [alias \in (DOMAIN a) \cup {"all"} |->
        IF alias = "all" THEN UNION {a[x] : x \in DOMAIN a} ELSE a[alias]]

\* a node of the secret tree: its path ("" when it has none), its keys list
\* and its other attributes in order, each a string or a node of the table
Node(path, keys, kids) == [path |-> path, keys |-> keys, kids |-> kids]

\* a child attribute that is a bare string; id names it in the histories
S(id, path) == [isStr |-> TRUE, str |-> path, id |-> id]

\* a child attribute that is the node id of the table
N(id) == [isStr |-> FALSE, str |-> "", id |-> id]

\* the node the loop makes of a child attribute: {'path': cd} or cd
ChildData(t, cd) ==
    IF cd.isStr
    THEN [id |-> cd.id, path |-> cd.str, keys |-> <<>>, kids |-> <<>>]
    ELSE [id |-> cd.id, path |-> t[cd.id].path, keys |-> t[cd.id].keys,
          kids |-> t[cd.id].kids]

\* the root, config_data['secrets'], is node 1
RootData(t) == [id |-> 1, path |-> t[1].path, keys |-> t[1].keys, kids |-> t[1].kids]

----------------------------------------------------------------------------
(* The inputs of a run *)

Paths == {"a.env", "b.env", "c.env", "u.env", "x.nix"}

\* the keys tables of the command runs
KeysCanonical == [master |-> Str("FM"), ops |-> List(<<"FA", "FB">>)]

KeysReduced == [master |-> Str("FM"), ops |-> List(<<"FA">>)]

KeysShortId == [master |-> Str("FM"), ops |-> List(<<"sA">>)]

KeysUnknownId == [master |-> Str("FM"), ops |-> List(<<"FA", "nokey">>)]

KeysNoOps == [master |-> Str("FM")]

RunKeyTables == {KeysCanonical, KeysReduced, KeysShortId, KeysUnknownId, KeysNoOps}

\* the secret tree of the command runs:
\*   { a = { path = "a.env"; keys = [ "ops" ]; }; b = "b.env"; }
RunTree == <<Node("", <<>>, <<N(2), S(3, "b.env")>>), Node("a.env", <<"ops">>, <<>>)>>

\* every keys table over AliasNames with these values
KeyConfigs ==
    {Str("FM"), List(<<>>), List(<<"FA">>), List(<<"FA", "FB">>), List(<<"sA">>),
     List(<<"FB", "nokey">>)}

AllKeyTables == UNION {[D -> KeyConfigs] : D \in SUBSET AliasNames}

\* the keys tables of the generated trees: complete, an alias or master
\* missing, aliases without keys
TreeKeyTables ==
    {[master |-> Str("FM"), ops |-> List(<<"FA">>), dev |-> List(<<"FB">>)],
     [master |-> Str("FM"), ops |-> List(<<"FA", "FB">>)],
     [ops |-> List(<<"FA">>), dev |-> List(<<"FB">>)],
     [master |-> List(<<>>), ops |-> List(<<"FA">>), dev |-> List(<<>>)]}

\* the generated trees: a chain of three nodes, a bare string child on the
\* first and on the last
NodeKeyLists == SeqsOf({"ops", "dev"}, 0, MaxNodeKeys)

TreeOf(k1, k2, k3, p1, p2) ==
    <<Node(p1, k1, <<N(2), S(4, "b.env")>>),
      Node(p2, k2, <<N(3)>>),
      Node("c.env", k3, <<S(5, "a.env")>>)>>

Trees ==
    {TreeOf(k1, k2, k3, p1, p2) :
        k1 \in NodeKeyLists, k2 \in NodeKeyLists, k3 \in NodeKeyLists,
        p1 \in {"", "a.env"}, p2 \in {"", "a.env", "b.env"}}

\* contents a file can have when the command starts
StartContents ==
    {Content(2, <<>>), Content(3, <<>>), Content(1, <<>>),
     Content(2, <<{"kM"}>>), Content(2, <<{"kA", "kM"}>>),
     Content(3, <<{"kA", "kB", "kM"}>>)}

\* file names: a path of the tree, or the temporary file made beside it
\* (same directory, the file name as prefix)
File(p) == [path |-> p, tmp |-> FALSE]

Temp(p) == [path |-> p, tmp |-> TRUE]

Names == {File(p) : p \in Paths} \cup {Temp(p) : p \in Paths}

DiskOf(a, b) ==
    [n \in Names |->
        IF n.tmp THEN Absent
        ELSE IF n.path = "a.env" THEN a
        ELSE IF n.path = "b.env" THEN b
        ELSE Content(2, <<>>)]

StartDisks ==
    {DiskOf(a, b) : a \in StartContents, b \in {Content(2, <<>>), Content(2, <<{"kM"}>>)}}

PlainDisk == DiskOf(Content(2, <<>>), Content(2, <<>>))

\* contents handed to _detect_encryption on its own: every content of at most
\* one byte, and longer ones with every first byte
TailBytes == {0, 3}

ProbeContents ==
    {<<>>} \cup {<<b>> : b \in 0..255}
    \cup {<<b>> \o t : b \in 0..255, t \in SeqsOf(TailBytes, 1, MaxProbeLen - 1)}

----------------------------------------------------------------------------
(* The state after main() parsed its arguments *)

NoErr == [type |-> "", path |-> "", msg |-> ""]

NoResult == [ok |-> FALSE, status |-> ""]

\* history of an update_keys call: the Secret, the file and the cached flag
\* when it was called, what self.encrypted answered, current_keys, and the
\* encrypt()/decrypt() calls it made
NoCall == [sec |-> 0, ops |-> <<>>, before |-> Absent, flag |-> "None",
           detected |-> "None", current |-> {}]

\* history of an encrypt()/decrypt() call: the file and the cached flag when
\* it was called, the complete output of the engine, and how far it got
NoOp == [name |-> "", path |-> "", pre |-> Absent, flag |-> "None",
         out |-> Absent, stage |-> ""]

InitState ==
    /\ pc = "config"
    /\ aliases = <<>>
    /\ parse_queue = <<>>
    /\ secrets = <<>>
    /\ path_secrets = [p \in Paths |-> 0]
    /\ visited = <<>>
    /\ argi = 1
    /\ cur = 0
    /\ ret = ""
    /\ disk = disk0
    /\ result = NoResult
    /\ err = NoErr
    /\ call = NoCall
    /\ log = <<>>
    /\ op = NoOp

NoProbe ==
    /\ probe = <<>>
    /\ verdict = "none"

\* the file names of the generate command: <name>.asc and --key-file
KeyFileNames == {"alice.asc", "bob.asc", "out.asc"}

\* no key has been generated
NoKey ==
    /\ keyring = [private |-> FALSE, public |-> FALSE]
    /\ key_data = "none"

NoGenerate ==
    /\ gen_args = [name |-> "", key_file |-> ""]
    /\ key_files = [f \in KeyFileNames |-> "absent"]
    /\ NoKey

\* check_command has not started
NoScan ==
    /\ printed = <<>>
    /\ all_encrypted = TRUE
    /\ yielded = <<>>
    /\ exit = -1

NoCheck ==
    /\ dir_names = <<>>
    /\ contents = <<>>
    /\ check_dir = <<>>
    /\ NoScan

----------------------------------------------------------------------------
(* SecretsConfig.__init__ *)

\* KeyManager.__init__ raises: set.union() of no sets is a TypeError
KeyManagerRaises(config) == DOMAIN config = {}

\* KeyManager.__init__: self._aliases
KeyManager(config) == WithAll(AliasSets(config))

\* lines 274-289: the KeyManager is built and the queue seeded with the root
SecretsConfigInit ==
    /\ pc = "config"
    /\ IF KeyManagerRaises(keysCfg)
       THEN /\ pc' = "error"
            /\ err' = [type |-> "TypeError", path |-> "", msg |-> "set.union"]
            /\ UNCHANGED <<aliases, parse_queue>>
       ELSE /\ aliases' = KeyManager(keysCfg)
            /\ parse_queue' = <<RootData(tree)>>
            /\ pc' = "parse"
            /\ err' = err
    /\ UNCHANGED <<cfgVars, secrets, path_secrets, visited, runVars,
                   probeVars, genVars, checkVars>>

\* KeyManager.lookup_alias raises for one of these
UnknownAliases(key_aliases) == {a \in Range(key_aliases) : a \notin DOMAIN aliases}

\* key_aliases of a popped node: data.pop('keys', []) + ['master']
KeyAliases(data) == data.keys \o <<"master">>

\* a bug the code could have: the child keeps its own keys list only
InheritNothing(child_data, key_aliases) == child_data

\* the child the loop enqueues:
\* child_data.setdefault('keys', []).extend(key_aliases)
Inherit(child_data, key_aliases) ==
    [child_data EXCEPT !.keys = @ \o key_aliases]

\* a bug the code could have: the children are appended on the side pop() takes
\* from, which makes the queue a stack
EnqueueRight(queue, data, key_aliases) ==
    queue \o [j \in 1..Len(data.kids) |->
                Inherit(ChildData(tree, data.kids[j]), key_aliases)]

\* a bug the code could have: only the first child of a node is enqueued
EnqueueFirst(queue, data, key_aliases) ==
    IF data.kids = <<>> THEN queue
    ELSE <<Inherit(ChildData(tree, data.kids[1]), key_aliases)>> \o queue

\* the queue after the loop over data.items(): each child in turn to the left
Enqueue(queue, data, key_aliases) ==
    Reverse([j \in 1..Len(data.kids) |->
                Inherit(ChildData(tree, data.kids[j]), key_aliases)]) \o queue

\* a bug the code could have: a node with a path is recorded whatever its keys
RecordedIfPath(path, keys) == path # ""

\* line 295, "if path and keys": None and '' are falsy, and so is the empty set
Recorded(path, keys) == path # "" /\ keys # {}

\* Secret.__init__; node is history: the tree node the Secret was made for
Secret(path, keys, node) ==
    [path |-> path, keys |-> keys, encrypted |-> "None", node |-> node]

\* one turn of the while loop, lines 290-307
ParseNode ==
    /\ pc = "parse"
    /\ parse_queue # <<>>
    /\ visited' = Append(visited, Last(parse_queue).id)
    /\ LET data == Last(parse_queue)
           path == data.path
           key_aliases == KeyAliases(data)
       IN IF UnknownAliases(key_aliases) # {}
          THEN /\ pc' = "error"
               /\ err' = [type |-> "SecretKeyError", path |-> "",
                          msg |-> "unknown key alias"]
               /\ parse_queue' = Front(parse_queue)
               /\ UNCHANGED <<secrets, path_secrets>>
          ELSE LET keys == UNION {aliases[a] : a \in Range(key_aliases)} IN
               /\ IF Recorded(path, keys)
                  THEN /\ secrets' = Append(secrets, Secret(path, keys, data.id))
                       /\ path_secrets' = [path_secrets EXCEPT ![path] = Len(secrets) + 1]
                  ELSE UNCHANGED <<secrets, path_secrets>>
               /\ parse_queue' = Enqueue(Front(parse_queue), data, key_aliases)
               /\ UNCHANGED <<pc, err>>
    /\ UNCHANGED <<cfgVars, aliases, runVars, probeVars, genVars, checkVars>>

\* the queue is empty: __init__ returns and main() calls args.func
ParseDone ==
    /\ pc = "parse"
    /\ parse_queue = <<>>
    /\ pc' = cmd
    /\ UNCHANGED <<cfgVars, aliases, parse_queue, secrets, path_secrets, visited,
                   runVars, err, probeVars, genVars, checkVars>>

----------------------------------------------------------------------------
(* Specification of KeyManager over every keys table *)

InitAlias ==
    /\ keysCfg \in AllKeyTables
    /\ tree = RunTree
    /\ cmd = "encrypt"
    /\ files = <<"a.env">>
    /\ recursive = FALSE
    /\ disk0 = PlainDisk
    /\ InitState
    /\ NoProbe
    /\ NoGenerate
    /\ NoCheck

NextAlias == SecretsConfigInit

SpecAlias == InitAlias /\ [][NextAlias]_vars

(* Specification of the resolver over the generated trees *)

InitResolve ==
    /\ keysCfg \in TreeKeyTables
    /\ tree \in Trees
    /\ cmd = "encrypt"
    /\ files = <<"a.env">>
    /\ recursive = FALSE
    /\ disk0 = PlainDisk
    /\ InitState
    /\ NoProbe
    /\ NoGenerate
    /\ NoCheck

NextResolve == SecretsConfigInit \/ ParseNode \/ ParseDone

SpecResolve == InitResolve /\ [][NextResolve]_vars

\* the same, with the loop running on: the process is sequential and nothing
\* but its own steps is needed for the next one
SpecResolveFair == InitResolve /\ [][NextResolve]_vars /\ WF_vars(NextResolve)

(* Specification of _detect_encryption on its own *)

InitDetect ==
    /\ keysCfg = KeysCanonical
    /\ tree = RunTree
    /\ cmd = "check"
    /\ files = <<>>
    /\ recursive = FALSE
    /\ disk0 = PlainDisk
    /\ InitState
    /\ probe \in ProbeContents
    /\ verdict = "none"
    /\ NoGenerate
    /\ NoCheck

\* Secret(path, set()).encrypted on a file with the bytes of probe
DetectProbe ==
    /\ verdict = "none"
    /\ cmd = "check"
    /\ verdict' = DetectEncryption(probe)
    /\ UNCHANGED <<cfgVars, pc, aliases, parse_queue, secrets, path_secrets, visited,
                   runVars, err, probe, genVars, checkVars>>

NextDetect == DetectProbe

SpecDetect == InitDetect /\ [][NextDetect]_vars

----------------------------------------------------------------------------
(* Secret *)

\* a bug the code could have: the flag is not cached, every read detects anew
EncryptedUncached(secret, content) == DetectEncryption(Bytes(content))

\* the property Secret.encrypted: the cached flag, or what detection answers
Encrypted(secret, content) ==
    IF secret.encrypted # "None" THEN secret.encrypted
    ELSE DetectEncryption(Bytes(content))

\* the temporary files that exist
Temps == {n \in Names : n.tmp /\ disk[n] # Absent}

\* a bug the code could have: the engine writes over the target itself
OutputTarget(path) == File(path)

\* the file the engine is told to write: output=enc_temp.name
OutputName(path) == Temp(path)

\* os.replace(enc_temp.name, self._path)
Replace(d, path) == [d EXCEPT ![File(path)] = d[Temp(path)], ![Temp(path)] = Absent]

\* a bug the code could have: the failure branch does not remove the file
RemoveNothing(d, path) == d

\* os.remove(enc_temp.name)
Remove(d, path) == [d EXCEPT ![Temp(path)] = Absent]

\* the update_keys call as the log keeps it when it ends
EndCall(c, d, ss, raised) ==
    [sec |-> c.sec, ops |-> c.ops, before |-> c.before, flag |-> c.flag,
     detected |-> c.detected, current |-> c.current,
     after |-> d[File(ss[c.sec].path)], flagAfter |-> ss[c.sec].encrypted,
     raised |-> raised]

\* where encrypt() returns to: update_keys, or the caller that goes on to
\* call decrypt() on the same Secret
AfterEncrypt == IF ret = "update_keys" THEN "update_keys_return" ELSE "decrypt_begin"

\* where decrypt() returns to: update_keys, which goes on to encrypt(), the
\* loop of decrypt_command, or the caller of the encrypt()/decrypt() pair
AfterDecrypt ==
    IF ret = "update_keys" THEN "encrypt_begin"
    ELSE IF ret = "decrypt_command" THEN "decrypt"
    ELSE "done"

\* update_keys, lines 185-191 and 194-195: up to the calls it makes
UpdateKeys ==
    /\ pc = "update_keys"
    /\ \E encrypted_to \in ListPackets(disk[File(secrets[cur].path)]) :
       LET secret == secrets[cur]
           content == disk[File(secret.path)]
           encrypted == Encrypted(secret, content)
           current_keys == IF encrypted = "True"
                           THEN GetMasterKeys(encrypted_to)
                           ELSE {}
       IN /\ secrets' = [secrets EXCEPT ![cur].encrypted = encrypted]
          /\ call' = [sec |-> cur, ops |-> <<>>, before |-> content,
                      flag |-> secret.encrypted, detected |-> encrypted,
                      current |-> current_keys]
          /\ ret' = "update_keys"
          /\ pc' = IF current_keys # secret.keys
                   THEN IF encrypted = "True" THEN "decrypt_begin" ELSE "encrypt_begin"
                   ELSE "update_keys_return"
    /\ UNCHANGED <<cfgVars, resolveVars, argi, cur, disk, result, err, log, op,
                   probeVars, genVars, checkVars>>

\* update_keys returns to encrypt_path, which returns to the loop
UpdateKeysReturn ==
    /\ pc = "update_keys_return"
    /\ log' = Append(log, EndCall(call, disk, secrets, FALSE))
    /\ argi' = argi + 1
    /\ pc' = "encrypt"
    /\ UNCHANGED <<cfgVars, resolveVars, secrets, cur, ret, disk, result, err, call, op,
                   probeVars, genVars, checkVars>>

\* encrypt(), lines 198-205: the early return, or the files are opened
EncryptBegin ==
    /\ pc = "encrypt_begin"
    /\ LET secret == secrets[cur]
           content == disk[File(secret.path)]
           encrypted == Encrypted(secret, content)
       IN /\ secrets' = [secrets EXCEPT ![cur].encrypted = encrypted]
          /\ call' = IF ret = "update_keys" THEN [call EXCEPT !.ops = Append(@, "encrypt")]
                      ELSE call
          /\ IF encrypted = "True"
             THEN /\ pc' = AfterEncrypt
                  /\ UNCHANGED <<disk, op, result>>
             ELSE /\ disk' = [disk EXCEPT ![Temp(secret.path)] = EmptyFile]
                  /\ op' = [name |-> "encrypt", path |-> secret.path, pre |-> content,
                            flag |-> secret.encrypted,
                            out |-> EngineEncrypt(content, secret.keys),
                            stage |-> "begun"]
                  /\ result' = NoResult
                  /\ pc' = "encrypt_engine"
    /\ UNCHANGED <<cfgVars, resolveVars, argi, cur, ret, err, log,
                   probeVars, genVars, checkVars>>

\* gpg.encrypt_file is writing its output
EncryptEngineWrite ==
    /\ pc = "encrypt_engine"
    /\ op.stage = "begun"
    /\ CanEncrypt(secrets[cur].keys)
    /\ disk' = [disk EXCEPT ![OutputName(op.path)] = Partial(op.out)]
    /\ op' = [op EXCEPT !.stage = "writing"]
    /\ UNCHANGED <<cfgVars, resolveVars, secrets, pc, argi, cur, ret, result, err, call,
                   log, probeVars, genVars, checkVars>>

\* gpg.encrypt_file returns, line 206: ok with the output written, or not ok
\* (os.fchmod, line 209, changes the mode of the temporary file only)
EncryptEngineResult ==
    /\ pc = "encrypt_engine"
    /\ \E ok \in BOOLEAN :
          IF ok
          THEN /\ op.stage = "writing"
               /\ disk' = [disk EXCEPT ![OutputName(op.path)] = op.out]
               /\ result' = [ok |-> TRUE, status |-> "encryption ok"]
          ELSE /\ disk' = disk
               /\ result' = [ok |-> FALSE,
                             status |-> IF CanEncrypt(secrets[cur].keys)
                                        THEN "encryption failed"
                                        ELSE "invalid recipient"]
    /\ pc' = "encrypt_result"
    /\ UNCHANGED <<cfgVars, resolveVars, secrets, argi, cur, ret, err, call, log, op,
                   probeVars, genVars, checkVars>>

\* encrypt(), lines 210-215
EncryptFinish ==
    /\ pc = "encrypt_result"
    /\ IF result.ok
       THEN /\ disk' = Replace(disk, op.path)
            /\ secrets' = [secrets EXCEPT ![cur].encrypted = "True"]
            /\ op' = [op EXCEPT !.stage = "replaced"]
            /\ pc' = AfterEncrypt
            /\ UNCHANGED <<err, log>>
       ELSE /\ disk' = Remove(disk, op.path)
            /\ op' = [op EXCEPT !.stage = "removed"]
            /\ err' = [type |-> "SecretError", path |-> op.path, msg |-> result.status]
            /\ pc' = "error"
            /\ log' = IF ret = "update_keys"
                      THEN Append(log, EndCall(call, disk', secrets, TRUE))
                      ELSE log
            /\ UNCHANGED secrets
    /\ UNCHANGED <<cfgVars, resolveVars, argi, cur, ret, result, call,
                   probeVars, genVars, checkVars>>

\* decrypt(), lines 218-221: the files are opened
DecryptBegin ==
    /\ pc = "decrypt_begin"
    /\ LET secret == secrets[cur]
           content == disk[File(secret.path)]
       IN /\ disk' = [disk EXCEPT ![Temp(secret.path)] = EmptyFile]
          /\ op' = [name |-> "decrypt", path |-> secret.path, pre |-> content,
                    flag |-> secret.encrypted, out |-> EngineDecrypt(content),
                    stage |-> "begun"]
    /\ call' = IF ret = "update_keys" THEN [call EXCEPT !.ops = Append(@, "decrypt")]
               ELSE call
    /\ result' = NoResult
    /\ pc' = "decrypt_engine"
    /\ UNCHANGED <<cfgVars, resolveVars, secrets, argi, cur, ret, err, log,
                   probeVars, genVars, checkVars>>

\* gpg.decrypt_file is writing its output
DecryptEngineWrite ==
    /\ pc = "decrypt_engine"
    /\ op.stage = "begun"
    /\ CanDecrypt(op.pre)
    /\ disk' = [disk EXCEPT ![OutputName(op.path)] = Partial(op.out)]
    /\ op' = [op EXCEPT !.stage = "writing"]
    /\ UNCHANGED <<cfgVars, resolveVars, secrets, pc, argi, cur, ret, result, err, call,
                   log, probeVars, genVars, checkVars>>

\* gpg.decrypt_file returns, line 222: ok with the output written, or not ok
\* (no private key for the file, or the file is no encrypted message)
DecryptEngineResult ==
    /\ pc = "decrypt_engine"
    /\ \E ok \in BOOLEAN :
          IF ok
          THEN /\ op.stage = "writing"
               /\ disk' = [disk EXCEPT ![OutputName(op.path)] = op.out]
               /\ result' = [ok |-> TRUE, status |-> "decryption ok"]
          ELSE /\ disk' = disk
               /\ result' = [ok |-> FALSE,
                             status |-> IF CanDecrypt(op.pre)
                                        THEN "decryption failed"
                                        ELSE "no valid OpenPGP data found"]
    /\ pc' = "decrypt_result"
    /\ UNCHANGED <<cfgVars, resolveVars, secrets, argi, cur, ret, err, call, log, op,
                   probeVars, genVars, checkVars>>

\* decrypt(), lines 225-230; on return update_keys goes on to encrypt() and
\* decrypt_command to its next file
DecryptFinish ==
    /\ pc = "decrypt_result"
    /\ IF result.ok
       THEN /\ disk' = Replace(disk, op.path)
            /\ secrets' = [secrets EXCEPT ![cur].encrypted = "False"]
            /\ op' = [op EXCEPT !.stage = "replaced"]
            /\ pc' = AfterDecrypt
            /\ argi' = IF ret = "decrypt_command" THEN argi + 1 ELSE argi
            /\ UNCHANGED <<err, log>>
       ELSE /\ disk' = Remove(disk, op.path)
            /\ op' = [op EXCEPT !.stage = "removed"]
            /\ err' = [type |-> "SecretError", path |-> op.path, msg |-> result.status]
            /\ pc' = "error"
            /\ log' = IF ret = "update_keys"
                      THEN Append(log, EndCall(call, disk', secrets, TRUE))
                      ELSE log
            /\ UNCHANGED <<secrets, argi>>
    /\ UNCHANGED <<cfgVars, resolveVars, cur, ret, result, call,
                   probeVars, genVars, checkVars>>

----------------------------------------------------------------------------
(* The commands *)

\* SecretsConfig.is_excluded on the paths of the model: '*.nix' matches x.nix
IsExcluded(path) == path \in {"x.nix"}

\* a bug the code could have: the error of one path is caught and the loop goes on
CatchAndContinue(i) == [pc |-> "encrypt", argi |-> i + 1]

\* lookup_path raised for files[i] in encrypt_path: neither encrypt_path nor
\* the loop catches SecretError, the command ends
LookupFailed(i) == [pc |-> "error", argi |-> i]

\* encrypt_command: one turn of the loop, up to the call of update_keys
EncryptCommand ==
    /\ pc = "encrypt"
    /\ IF argi > Len(files)
       THEN /\ pc' = "done"
            /\ UNCHANGED <<argi, cur, err>>
       ELSE LET path == files[argi] IN
            IF recursive /\ IsExcluded(path)
            THEN /\ argi' = argi + 1
                 /\ UNCHANGED <<pc, cur, err>>
            ELSE IF path_secrets[path] = 0
            THEN /\ err' = [type |-> "SecretError", path |-> path,
                            msg |-> "secret path is not configured"]
                 /\ pc' = LookupFailed(argi).pc
                 /\ argi' = LookupFailed(argi).argi
                 /\ cur' = cur
            ELSE /\ cur' = path_secrets[path]
                 /\ pc' = "update_keys"
                 /\ UNCHANGED <<argi, err>>
    /\ UNCHANGED <<cfgVars, resolveVars, secrets, ret, disk, result, call, log, op,
                   probeVars, genVars, checkVars>>

\* decrypt_command: one turn of the loop, up to the call of decrypt()
DecryptCommand ==
    /\ pc = "decrypt"
    /\ IF argi > Len(files)
       THEN /\ pc' = "done"
            /\ UNCHANGED <<secrets, cur, ret>>
       ELSE /\ secrets' = Append(secrets, Secret(files[argi], {}, 0))
            /\ cur' = Len(secrets) + 1
            /\ ret' = "decrypt_command"
            /\ pc' = "decrypt_begin"
    /\ UNCHANGED <<cfgVars, resolveVars, argi, disk, result, err, call, log, op,
                   probeVars, genVars, checkVars>>

\* the process is interrupted inside update_keys, encrypt() or decrypt()
CrashPcs ==
    {"update_keys", "update_keys_return", "encrypt_begin", "encrypt_engine",
     "encrypt_result", "decrypt_begin", "decrypt_engine", "decrypt_result"}

Crash ==
    /\ pc \in CrashPcs
    /\ pc' = "crashed"
    /\ UNCHANGED <<cfgVars, resolveVars, secrets, runVars, err, probeVars, genVars, checkVars>>

----------------------------------------------------------------------------
(* Specification of a command run *)

\* args.files: named files, or the files a recursive walk finds
NamedFiles == SeqsOf({"a.env", "b.env", "u.env"}, 1, MaxFiles)

WalkedFiles ==
    {w \in SeqsOf({"a.env", "u.env", "x.nix"}, 1, MaxFiles) :
        \A j, k \in 1..Len(w) : j # k => w[j] # w[k]}

Init ==
    /\ keysCfg \in RunKeyTables
    /\ tree = RunTree
    /\ cmd \in {"encrypt", "decrypt"}
    /\ \/ recursive = FALSE /\ files \in NamedFiles
       \/ recursive = TRUE /\ cmd = "encrypt" /\ files \in WalkedFiles
    /\ disk0 \in StartDisks
    /\ InitState
    /\ NoProbe
    /\ NoGenerate
    /\ NoCheck

Next ==
    \/ SecretsConfigInit
    \/ ParseNode
    \/ ParseDone
    \/ EncryptCommand
    \/ DecryptCommand
    \/ UpdateKeys
    \/ UpdateKeysReturn
    \/ EncryptBegin
    \/ EncryptEngineWrite
    \/ EncryptEngineResult
    \/ EncryptFinish
    \/ DecryptBegin
    \/ DecryptEngineWrite
    \/ DecryptEngineResult
    \/ DecryptFinish
    \/ Crash

Spec == Init /\ [][Next]_vars

(* KeyGenerator.generate and generate_command *)

\* f'{name}.asc'
DefaultKeyPath(name) == IF name = "alice" THEN "alice.asc" ELSE "bob.asc"

\* lines 240-241: "if not key_path" takes None and '' alike
KeyPath(name, key_path) == IF key_path = "" THEN DefaultKeyPath(name) ELSE key_path

\* the file generate() writes
KeyFile == KeyPath(gen_args.name, gen_args.key_file)

GenError(type, msg) == [type |-> type, path |-> "", msg |-> msg]

\* lines 243-252: gpg.gen_key gives a key, or a falsy GenKey and generate raises
GenKey ==
    /\ pc = "generate"
    /\ \E made \in BOOLEAN :
          IF made
          THEN /\ keyring' = [private |-> TRUE, public |-> TRUE]
               /\ pc' = "gen_open"
               /\ err' = err
          ELSE /\ keyring' = keyring
               /\ pc' = "error"
               /\ err' = GenError("SecretKeyError", "Failed to generate key")
    /\ UNCHANGED <<cfgVars, resolveVars, secrets, runVars, probeVars, gen_args, key_files,
                   key_data, checkVars>>

\* line 253, open(key_path, 'w'): the file is created or truncated, or open raises
GenOpen ==
    /\ pc = "gen_open"
    /\ \E ok \in BOOLEAN :
          IF ok
          THEN /\ key_files' = [key_files EXCEPT ![KeyFile] = ""]
               /\ pc' = "gen_export"
               /\ err' = err
          ELSE /\ key_files' = key_files
               /\ pc' = "error"
               /\ err' = GenError("OSError", "open")
    /\ UNCHANGED <<cfgVars, resolveVars, secrets, runVars, probeVars, gen_args, keyring,
                   key_data, checkVars>>

\* what gpg.export_keys(fingerprint, secret=True, passphrase='') can return: the
\* secret key, or the empty string when the engine exported nothing
ExportResults == {"secret key", ""}

\* line 254: the export returns its data, or the call raises
GenExport ==
    /\ pc = "gen_export"
    /\ \/ \E data \in ExportResults :
             /\ key_data' = data
             /\ pc' = "gen_write"
             /\ err' = err
       \/ /\ key_data' = key_data
          /\ pc' = "error"
          /\ err' = GenError("OSError", "export_keys")
    /\ UNCHANGED <<cfgVars, resolveVars, secrets, runVars, probeVars, gen_args, keyring,
                   key_files, checkVars>>

\* line 255 and the end of the with block: the data is written and the file
\* closed, or the write raises and the file is left as it was opened
GenWrite ==
    /\ pc = "gen_write"
    /\ \E ok \in BOOLEAN :
          IF ok
          THEN /\ key_files' = [key_files EXCEPT ![KeyFile] = key_data]
               /\ pc' = "gen_delete"
               /\ err' = err
          ELSE /\ key_files' = key_files
               /\ pc' = "error"
               /\ err' = GenError("OSError", "write")
    /\ UNCHANGED <<cfgVars, resolveVars, secrets, runVars, probeVars, gen_args, keyring,
                   key_data, checkVars>>

\* line 256, gpg.delete_keys(fingerprint, secret=True, passphrase=''): the
\* private key is deleted, or the engine deleted nothing; the result is not read
GenDelete ==
    /\ pc = "gen_delete"
    /\ \E deleted \in BOOLEAN :
          keyring' = [keyring EXCEPT !.private = IF deleted THEN FALSE ELSE @]
    /\ pc' = "gen_return"
    /\ UNCHANGED <<cfgVars, resolveVars, secrets, runVars, err, probeVars, gen_args,
                   key_files, key_data, exit, dir_names, contents, check_dir, printed,
                   all_encrypted, yielded>>

\* line 257 and generate_command: the fingerprint is printed, the command returns 0
GenerateReturn ==
    /\ pc = "gen_return"
    /\ pc' = "done"
    /\ exit' = 0
    /\ UNCHANGED <<cfgVars, resolveVars, secrets, runVars, err, probeVars, genVars,
                   dir_names, contents, check_dir, printed, all_encrypted, yielded>>

(* Specification of the generate command *)

KeyNames == {"alice", "bob"}

KeyFileArgs == {"", "out.asc"}

InitGenerate ==
    /\ keysCfg = KeysCanonical
    /\ tree = RunTree
    /\ cmd = "generate"
    /\ files = <<>>
    /\ recursive = FALSE
    /\ disk0 = PlainDisk
    /\ InitState
    /\ NoProbe
    /\ NoCheck
    /\ gen_args \in [name : KeyNames, key_file : KeyFileArgs]
    /\ key_files \in [KeyFileNames -> {"absent", "other data"}]
    /\ NoKey

NextGenerate ==
    \/ SecretsConfigInit
    \/ ParseNode
    \/ ParseDone
    \/ GenKey
    \/ GenOpen
    \/ GenExport
    \/ GenWrite
    \/ GenDelete
    \/ GenerateReturn

SpecGenerate == InitGenerate /\ [][NextGenerate]_vars

(* SecretsConfig.all_secrets and check_command *)

\* a path is the sequence of its components, relative to config.dir (is_excluded
\* takes os.path.relpath(path, self.dir))
EXCLUDE_FILES == <<"*.nix", ".git/*", ".git", ".pre-commit">>

\* the names of the model that end in ".nix"
NixNames == {"x.nix", "y.nix", "d.nix"}

\* fnmatch.fnmatch(path, pattern) for the patterns of EXCLUDE_FILES: "*" matches
\* any run of characters, "/" included, every other character matches itself
Fnmatch(path, pattern) ==
    CASE pattern = "*.nix" -> path # <<>> /\ Last(path) \in NixNames
      [] pattern = ".git/*" -> Len(path) >= 2 /\ path[1] = ".git"
      [] pattern = ".git" -> path = <<".git">>
      [] pattern = ".pre-commit" -> path = <<".pre-commit">>
      [] OTHER -> FALSE

\* SecretsConfig.is_excluded
IsExcludedPath(path) ==
    \E k \in 1..Len(EXCLUDE_FILES) : Fnmatch(path, EXCLUDE_FILES[k])

\* the directories there can be under config.dir, and the files in each
DirNames == {".git", ".pre-commit", "sub", "d.nix"}

AllDirs == {<<>>, <<".git">>, <<".git", "objects">>, <<".pre-commit">>, <<"sub">>, <<"d.nix">>}

\* file_names of os.walk for a directory
FileNames(dir_path) ==
    CASE dir_path = <<>> -> <<"a.env", "x.nix">>
      [] dir_path = <<".git">> -> <<"config">>
      [] dir_path = <<".git", "objects">> -> <<"pack">>
      [] dir_path = <<".pre-commit">> -> <<"hook">>
      [] dir_path = <<"sub">> -> <<"s.env", "y.nix">>
      [] dir_path = <<"d.nix">> -> <<"k.env">>
      [] OTHER -> <<>>

\* dir_names of os.walk for a directory
SubDirs(dir_path) ==
    CASE dir_path = <<>> -> dir_names
      [] dir_path = <<".git">> -> <<"objects">>
      [] OTHER -> <<>>

\* del list[i], with i counted from 1
RemoveAt(list, i) == SubSeq(list, 1, i - 1) \o SubSeq(list, i + 1, Len(list))

\* lines 328-330: enumerate(dir_names) goes on with the next index over the
\* list as "del dir_names[i]" left it
RECURSIVE Prune(_, _, _)
Prune(dir_path, names, i) ==
    IF i > Len(names) THEN names
    ELSE IF IsExcludedPath(dir_path \o <<names[i]>>)
         THEN Prune(dir_path, RemoveAt(names, i), i + 1)
         ELSE Prune(dir_path, names, i + 1)

\* lines 332-336: the files of a directory that are yielded
Yield(dir_path) ==
    SelectSeq([j \in 1..Len(FileNames(dir_path)) |-> dir_path \o <<FileNames(dir_path)[j]>>],
              LAMBDA file_path : ~IsExcludedPath(file_path))

\* os.walk top-down from dir_path with the body of the loop: the files of the
\* directory, then the walk of each directory left in dir_names
RECURSIVE Walk(_)
Walk(dir_path) ==
    LET kept == Prune(dir_path, SubDirs(dir_path), 1)
        F[k \in 0..Len(kept)] ==
            IF k = 0 THEN Yield(dir_path)
            ELSE F[k - 1] \o Walk(dir_path \o <<kept[k]>>)
    IN F[Len(kept)]

\* SecretsConfig.all_secrets: os.walk(self.dir)
AllSecrets == Walk(<<>>)

\* check_command: one turn of the loop over config.all_secrets(), or its end
CheckCommand ==
    /\ pc = "check"
    /\ IF argi > Len(AllSecrets)
       THEN /\ exit' = IF all_encrypted THEN 0 ELSE 2
            /\ pc' = "done"
            /\ UNCHANGED <<argi, printed, all_encrypted, yielded>>
       ELSE LET path == AllSecrets[argi]
                secret == Secret(path, {}, 0)
            IN /\ yielded' = Append(yielded, path)
               /\ IF Encrypted(secret, contents[path]) = "False"
                  THEN /\ printed' = Append(printed, path)
                       /\ all_encrypted' = FALSE
                  ELSE UNCHANGED <<printed, all_encrypted>>
               /\ argi' = argi + 1
               /\ UNCHANGED <<pc, exit>>
    /\ UNCHANGED <<cfgVars, resolveVars, secrets, cur, ret, disk, result, err, call, log,
                   op, probeVars, genVars, dir_names, contents, check_dir>>

(* Specification of the check command *)

\* the listings of config.dir: os.walk gives the names in the order of the
\* file system
Listings ==
    {l \in SeqsOf(DirNames, 0, MaxDirs) : \A j, k \in 1..Len(l) : j # k => l[j] # l[k]}

FilePaths == UNION {{d \o <<FileNames(d)[j]>> : j \in 1..Len(FileNames(d))} : d \in AllDirs}

\* the files whose content is encrypted in some runs
VariedFiles == {<<"a.env">>, <<"x.nix">>, <<"sub", "s.env">>, <<".pre-commit", "hook">>}

CheckContents ==
    {[f \in FilePaths |-> IF f \in enc THEN Content(2, <<{"kM"}>>) ELSE Content(2, <<>>)] :
        enc \in SUBSET VariedFiles}

\* args.dir: config.dir itself (the default with the default --config), or a
\* sub-directory of it
CheckDirs == {<<>>, <<"sub">>}

InitCheck ==
    /\ keysCfg = KeysCanonical
    /\ tree = RunTree
    /\ cmd = "check"
    /\ files = <<>>
    /\ recursive = FALSE
    /\ disk0 = PlainDisk
    /\ InitState
    /\ NoProbe
    /\ NoGenerate
    /\ dir_names \in Listings
    /\ contents \in CheckContents
    /\ check_dir \in {d \in CheckDirs : \A k \in 1..Len(d) : d[k] \in Range(dir_names)}
    /\ NoScan

NextCheck ==
    \/ SecretsConfigInit
    \/ ParseNode
    \/ ParseDone
    \/ CheckCommand

SpecCheck == InitCheck /\ [][NextCheck]_vars

(* Specification of encrypt() followed by decrypt() on one Secret *)

\* the key sets a Secret is constructed with: fingerprints and a subkey id, all
\* of keys whose private half is in the keyring
RoundTripKeys == (SUBSET {"FA", "FB", "FM", "sA"}) \ {{}}

\* the contents of a file that is not encrypted
Plaintexts == {Content(pt, <<>>) : pt \in 1..4}

\* secret = Secret(path, keys), then secret.encrypt(); secret.decrypt()
InitRoundTrip ==
    /\ keysCfg = KeysCanonical
    /\ tree = RunTree
    /\ cmd = "roundtrip"
    /\ files = <<"a.env">>
    /\ recursive = FALSE
    /\ \E content \in Plaintexts : disk0 = DiskOf(content, Content(2, <<>>))
    /\ \E keys \in RoundTripKeys : secrets = <<Secret("a.env", keys, 0)>>
    /\ pc = "encrypt_begin"
    /\ cur = 1
    /\ ret = "roundtrip"
    /\ aliases = <<>>
    /\ parse_queue = <<>>
    /\ path_secrets = [p \in Paths |-> 0]
    /\ visited = <<>>
    /\ argi = 1
    /\ disk = disk0
    /\ result = NoResult
    /\ err = NoErr
    /\ call = NoCall
    /\ log = <<>>
    /\ op = NoOp
    /\ NoProbe
    /\ NoGenerate
    /\ NoCheck

NextRoundTrip ==
    \/ EncryptBegin
    \/ EncryptEngineWrite
    \/ EncryptEngineResult
    \/ EncryptFinish
    \/ DecryptBegin
    \/ DecryptEngineWrite
    \/ DecryptEngineResult
    \/ DecryptFinish

SpecRoundTrip == InitRoundTrip /\ [][NextRoundTrip]_vars

----------------------------------------------------------------------------
(* Claims *)

\* every child attribute of the tree
AllKids(t) == UNION {Range(t[n].kids) : n \in 1..Len(t)}

\* the ids of the nodes of the tree, bare string children included
NodeIds(t) == {1} \cup {e.id : e \in AllKids(t)}

NodePath(t, id) ==
    IF id \in 1..Len(t) THEN t[id].path ELSE (CHOOSE e \in AllKids(t) : e.id = id).str

OwnAliases(t, id) == IF id \in 1..Len(t) THEN Range(t[id].keys) ELSE {}

Parent(t, id) == CHOOSE n \in 1..Len(t) : \E e \in Range(t[n].kids) : e.id = id

\* the aliases listed on the node or on any of its ancestors
RECURSIVE ChainAliases(_, _)
ChainAliases(t, id) ==
    OwnAliases(t, id) \cup (IF id = 1 THEN {} ELSE ChainAliases(t, Parent(t, id)))

\* the key sets of master and of the aliases of the chain, when all exist
ChainResolves(t, id) == (ChainAliases(t, id) \cup {"master"}) \subseteq DOMAIN aliases

ChainKeys(t, id) == UNION {aliases[a] : a \in ChainAliases(t, id) \cup {"master"}}

\* the Secret objects the resolver made for a node
SecretsOf(id) == {k \in 1..Len(secrets) : secrets[k].node = id}

IsPrefix(a, b) == Len(a) <= Len(b) /\ a = SubSeq(b, 1, Len(a))

\* master fingerprints of the keys a set of key ids names
Masters(keys) == {MasterOf(k) : k \in keys}

\* the calls update_keys makes when current_keys differs from the required set
CallsWhenDifferent(e) ==
    IF e.detected = "True" THEN <<"decrypt", "encrypt">> ELSE <<"encrypt">>

\* the rule of C1 for an update_keys call that ended; flagIfEqual is the
\* cached flag the rule asks for after a call that found the sets equal
CallRule(e, flagIfEqual) ==
    LET keys == secrets[e.sec].keys IN
    /\ e.detected = "False" => e.current = {}
    /\ IF e.current # keys
       THEN /\ e.ops # <<>>
            /\ IsPrefix(e.ops, CallsWhenDifferent(e))
            /\ ("decrypt" \in Range(e.ops)) <=> (e.detected = "True")
            /\ ~e.raised =>
                  /\ e.ops = CallsWhenDifferent(e)
                  /\ Len(e.after.layers) = 1
                  /\ Recipients(e.after) = Masters(keys)
                  /\ e.after.pt = e.before.pt
                  /\ e.after.whole
                  /\ DetectEncryption(Bytes(e.after)) = "True"
                  /\ e.flagAfter = "True"
       ELSE /\ e.ops = <<>>
            /\ ~e.raised
            /\ e.after = e.before
            /\ e.flagAfter = flagIfEqual

\* C1 as amended: when current_keys differs from the required set, decrypt()
\* runs first iff the file is detected encrypted, encrypt() runs after it
\* (unless decrypt() raised), and a call that returns leaves the file encrypted
\* to exactly the keys the required set names; when the sets are equal
\* neither runs and the file is unchanged, and the cached flag is unchanged if
\* it was set and otherwise set to what detection answered.
C1_Reconcile ==
    /\ \A k \in 1..Len(log) :
          CallRule(log[k], IF log[k].flag = "None"
                           THEN DetectEncryption(Bytes(log[k].before))
                           ELSE log[k].flag)
    /\ call.sec # 0 => IsPrefix(call.ops, CallsWhenDifferent(call))
    /\ (call.sec # 0 /\ call.current = secrets[call.sec].keys) => call.ops = <<>>

\* C1 witness: the scenario of the spec: a file encrypted to FA, FB and FM
\* was decrypted and encrypted again to FA and FM
C1_Witness ==
    \E k \in 1..Len(log) :
        /\ ~log[k].raised
        /\ Recipients(log[k].before) = {"FA", "FB", "FM"}
        /\ log[k].ops = <<"decrypt", "encrypt">>
        /\ Recipients(log[k].after) = {"FA", "FM"}

\* C1 as claimed: ... when the sets are equal the file and the cached flag are
\* unchanged.
C1_FlagUnchanged == \A k \in 1..Len(log) : CallRule(log[k], log[k].flag)

\* C2: of two update_keys calls in succession on one Secret that both return,
\* the first makes at most one encryption transition and the second is a
\* no-op: no decrypt, no encrypt, file unchanged.
C2_Idempotent ==
    \A k \in 1..(Len(log) - 1) :
        (log[k].sec = log[k + 1].sec /\ ~log[k].raised /\ ~log[k + 1].raised)
            => /\ Cardinality({j \in 1..Len(log[k].ops) : log[k].ops[j] = "encrypt"}) <= 1
               /\ log[k + 1].ops = <<>>
               /\ log[k + 1].after = log[k + 1].before

\* C3: while and after encrypt() or decrypt() runs, interrupted or not, the
\* target holds its complete content of before the call or the complete
\* output of the engine, never a partial write; up to the rename the target
\* is as before the call and at most one temporary file exists, beside it.
C3_Atomic ==
    /\ \A p \in Paths : disk[File(p)].whole /\ disk[File(p)] # Absent
    /\ op.name # "" => disk[File(op.path)] \in {op.pre, op.out}
    /\ (op.name # "" /\ op.stage \in {"begun", "writing"}) =>
          /\ disk[File(op.path)] = op.pre
          /\ Temps = {Temp(op.path)}
    /\ Cardinality(Temps) <= 1

\* C3 witness: encrypt() was interrupted while the engine was writing: the
\* temporary file is partial and the target is as before the call
C3_Witness ==
    /\ pc = "crashed"
    /\ op.name = "encrypt"
    /\ op.stage = "writing"
    /\ ~disk[Temp(op.path)].whole
    /\ disk[File(op.path)] = op.pre
    /\ op.out # op.pre

C4_Failed ==
    op.stage = "removed" =>
        /\ ~result.ok
        /\ Temps = {}
        /\ disk[File(op.path)] = op.pre
        /\ secrets[cur].encrypted = op.flag
        /\ pc = "error"
        /\ err = [type |-> "SecretError", path |-> op.path, msg |-> result.status]

C4_Fails ==
    (pc \in {"encrypt_result", "decrypt_result"} /\ ~result.ok) =>
        (pc' = "crashed" \/ (pc' = "error" /\ op'.stage = "removed"))

C5_NoFileTouched ==
    (/\ pc = "error"
     /\ \/ err.type = "SecretKeyError"
        \/ err.type = "SecretError" /\ err.msg = "invalid recipient")
        => \A p \in Paths : disk[File(p)] = disk0[File(p)]

\* C6: after update_keys returned or raised on a file that was encrypted, the
\* file is encrypted to the required set or is as before the call.
C6_NeverLeftPlaintext ==
    \A k \in 1..Len(log) :
        IsEncrypted(log[k].before) =>
            \/ log[k].after = log[k].before
            \/ /\ IsEncrypted(log[k].after)
               /\ Recipients(log[k].after) = Masters(secrets[log[k].sec].keys)

\* the paths of the batch that encrypt_path is called for, up to index n
Reconciled(n) ==
    SelectSeq(SubSeq(files, 1, n), LAMBDA p : ~(recursive /\ IsExcluded(p)))

NotConfigured == err.msg = "secret path is not configured"

\* C10 as amended: when lookup_path fails for a path of the batch the command
\* ends with that error: the paths before it have been reconciled, each once
\* and in order, and no path after it is touched.
C10_FailFast ==
    NotConfigured =>
        /\ pc = "error"
        /\ err.path = files[argi]
        /\ path_secrets[files[argi]] = 0
        /\ [m \in 1..Len(log) |-> secrets[log[m].sec].path] = Reconciled(argi - 1)
        /\ \A j \in (argi + 1)..Len(files) :
              files[j] \notin Range(SubSeq(files, 1, argi - 1))
                  => disk[File(files[j])] = disk0[File(files[j])]
        /\ Temps = {}

\* C10 witness: the second path of a batch of three has no entry; the first
\* was reconciled and the third, which has an entry and a plaintext file, is
\* left as it was
C10_Witness ==
    /\ pc = "error"
    /\ NotConfigured
    /\ argi = 2
    /\ Len(files) = 3
    /\ Len(log) = 1
    /\ log[1].ops = <<"encrypt">>
    /\ files[3] # files[1]
    /\ path_secrets[files[3]] # 0
    /\ ~IsEncrypted(disk[File(files[3])])

\* C10 as claimed: when lookup_path fails for one path, the other paths of the
\* batch that have an entry are reconciled.
C10_SiblingsReconciled ==
    (pc = "error" /\ NotConfigured) =>
        \A j \in 1..Len(files) :
            (path_secrets[files[j]] # 0 /\ ~(recursive /\ IsExcluded(files[j])))
                => \E m \in 1..Len(log) : secrets[log[m].sec].path = files[j]

\* C7: after construction lookup_alias('all') is the union of the key sets of
\* every other alias of the table.
C7_AllIsUnionOfOthers ==
    pc = "parse" =>
        aliases["all"] = UNION {aliases[a] : a \in (DOMAIN aliases) \ {"all"}}

\* C8: the key set recorded for a node with a path is the union of the key sets
\* of master and of every alias listed on the node or on an ancestor; once the
\* queue is empty every node with a path and a non-empty union has its Secret;
\* every recorded set holds master's keys, and a child's set includes its
\* parent's.
C8_ResolvedKeys ==
    /\ \A k \in 1..Len(secrets) :
          /\ secrets[k].path = NodePath(tree, secrets[k].node)
          /\ ChainResolves(tree, secrets[k].node)
          /\ secrets[k].keys = ChainKeys(tree, secrets[k].node)
          /\ aliases["master"] \subseteq secrets[k].keys
          /\ \A j \in 1..Len(secrets) :
                (secrets[k].node # 1 /\ secrets[j].node = Parent(tree, secrets[k].node))
                    => secrets[j].keys \subseteq secrets[k].keys
    /\ pc = "encrypt" =>
          \A id \in NodeIds(tree) :
              (NodePath(tree, id) # "" /\ ChainKeys(tree, id) # {})
                  => Cardinality(SecretsOf(id)) = 1

\* C8 witness: the resolver finished and the bare string child of the third
\* node, which lists no alias itself, got keys of two different ancestors
C8_Witness ==
    /\ pc = "encrypt"
    /\ tree[1].keys = <<"dev">>
    /\ tree[2].keys = <<"ops">>
    /\ tree[3].keys = <<>>
    /\ \E k \in SecretsOf(5) : secrets[k].keys = {"FA", "FB", "FM"}
    /\ \E k \in SecretsOf(4) : secrets[k].keys = {"FB", "FM"}

\* C9: a content of length 0 or 1, and a content whose first byte has the high
\* bit clear, is classified not encrypted.
C9_ShortIsNotEncrypted ==
    (verdict # "none" /\ (Len(probe) <= 1 \/ (probe[1] \div 128) % 2 = 0))
        => verdict = "False"

\* the ids of the children of the nodes of level, in the order of the levels
\* and, within a node, of its attributes
KidsOf(t, level) ==
    LET F[k \in 0..Len(level)] ==
            IF k = 0 THEN <<>>
            ELSE F[k - 1] \o (IF level[k] \in 1..Len(t)
                              THEN [j \in 1..Len(t[level[k]].kids) |-> t[level[k]].kids[j].id]
                              ELSE <<>>)
    IN F[Len(level)]

\* the nodes at distance d of the root, left to right
RECURSIVE Level(_, _)
Level(t, d) == IF d = 0 THEN <<1>> ELSE KidsOf(t, Level(t, d - 1))

\* the breadth-first order of the tree
BreadthFirst(t) ==
    LET F[d \in 0..Len(t)] == IF d = 0 THEN Level(t, 0) ELSE F[d - 1] \o Level(t, d)
    IN F[Len(t)]

\* distance of a node to the root
RECURSIVE Depth(_, _)
Depth(t, id) == IF id = 1 THEN 0 ELSE 1 + Depth(t, Parent(t, id))

\* positions in the breadth-first order of the nodes that yield a Secret for
\* path: the node has that path and its key set is not empty
Producers(t, path) ==
    {k \in 1..Len(BreadthFirst(t)) :
        /\ NodePath(t, BreadthFirst(t)[k]) = path
        /\ ChainKeys(t, BreadthFirst(t)[k]) # {}}

Max(set) == CHOOSE m \in set : \A k \in set : k <= m

\* __init__ returned: main() is about to call the command
Resolved == pc \notin {"config", "parse", "error", "crashed"} /\ visited # <<>>

\* C13: the nodes are popped in breadth-first order from the root; once the
\* constructor returned, the entry of a path is the Secret, with the key set
\* of its chain, of the node processed last among the nodes that yield a
\* Secret for that path, so that no shallower node and no node enqueued
\* earlier at the same depth keeps the entry.
C13_LastProcessedWins ==
    /\ IsPrefix(visited, BreadthFirst(tree))
    /\ Resolved =>
          \A path \in Paths :
              IF Producers(tree, path) = {}
              THEN path_secrets[path] = 0
              ELSE /\ path_secrets[path] # 0
                   /\ LET winner == secrets[path_secrets[path]]
                          order == BreadthFirst(tree)
                      IN /\ winner.node = order[Max(Producers(tree, path))]
                         /\ winner.path = path
                         /\ winner.keys = ChainKeys(tree, winner.node)
                         /\ \A k \in Producers(tree, path) :
                               /\ Depth(tree, order[k]) <= Depth(tree, winner.node)
                               /\ Depth(tree, order[k]) = Depth(tree, winner.node)
                                     => k <= Max(Producers(tree, path))

\* a resolved tree where "b.env" is the path of two nodes of the same depth
\* and "a.env" the path of a node and of a deeper one, each yielding a Secret
C13_Witness ==
    /\ Resolved
    /\ Len(visited) = Len(BreadthFirst(tree))
    /\ Cardinality(Producers(tree, "b.env")) = 2
    /\ Cardinality(Producers(tree, "a.env")) >= 2
    /\ secrets[path_secrets["b.env"]].node = 4
    /\ secrets[path_secrets["a.env"]].node = 5

\* the nodes the loop has processed to the end of its turn
Processed ==
    IF pc = "error" /\ err.type = "SecretKeyError" THEN Range(Front(visited))
    ELSE Range(visited)

\* the keys the aliases a node declares itself stand for
OwnKeys(t, id) == UNION {aliases[a] : a \in OwnAliases(t, id)}

\* C17: every Secret of the path map has a non-empty path and a non-empty
\* required key set; a processed node with no path has no Secret, yet each
\* Secret of a child of it requires the keys of the aliases the node declares;
\* a processed node whose resolved key set is empty has no Secret.
C17_DroppedNodes ==
    /\ \A k \in 1..Len(secrets) : secrets[k].path # "" /\ secrets[k].keys # {}
    /\ \A path \in Paths :
          path_secrets[path] # 0 =>
              /\ secrets[path_secrets[path]].path = path
              /\ secrets[path_secrets[path]].keys # {}
    /\ \A id \in Processed :
          /\ NodePath(tree, id) = "" => SecretsOf(id) = {}
          /\ ChainKeys(tree, id) = {} => SecretsOf(id) = {}
          /\ NodePath(tree, id) # "" /\ ChainKeys(tree, id) # {} => SecretsOf(id) # {}
          /\ id # 1 /\ NodePath(tree, Parent(tree, id)) = "" =>
                \A k \in SecretsOf(id) : OwnKeys(tree, Parent(tree, id)) \subseteq secrets[k].keys

\* a resolved tree with an empty master alias: the root has a path and an
\* empty key set and no Secret; node 2 has no path and declares an alias, and
\* its child, which declares none, has a Secret by the keys it inherits
C17_Witness ==
    /\ Resolved
    /\ aliases["master"] = {}
    /\ NodePath(tree, 1) # "" /\ ChainKeys(tree, 1) = {} /\ SecretsOf(1) = {}
    /\ NodePath(tree, 2) = "" /\ OwnKeys(tree, 2) # {} /\ SecretsOf(2) = {}
    /\ OwnAliases(tree, 3) = {} /\ SecretsOf(3) # {}
    /\ 3 \in Processed

\* every alias a node of the tree names, and master, is in the alias table
AllAliasesExist == \A id \in NodeIds(tree) : ChainResolves(tree, id)

\* no id occurs twice in the sequence
NoRepeat(seq) == \A i, j \in 1..Len(seq) : seq[i] = seq[j] => i = j

\* every node of the tree, bare string children included, has been popped and
\* processed, once
EachNodeOnce ==
    /\ NoRepeat(visited)
    /\ Range(visited) = NodeIds(tree)
    /\ Processed = NodeIds(tree)

\* C18: no node is ever popped twice, and when every alias of the tree exists
\* the loop that started leads to the empty queue with every node of the tree,
\* each bare string child included, popped and processed exactly once.
C18_Terminates ==
    /\ [](NoRepeat(visited) /\ Range(visited) \subseteq NodeIds(tree))
    /\ (pc = "parse" /\ AllAliasesExist) ~> (parse_queue = <<>> /\ pc # "error" /\ EachNodeOnce)

\* the constructor returned for a tree of five nodes, two of them bare strings
C18_Witness ==
    /\ Resolved
    /\ AllAliasesExist
    /\ parse_queue = <<>>
    /\ Len(visited) = 5
    /\ EachNodeOnce

\* no other Secret object has read or written the file of secrets[k]
SoleUser(k) ==
    \A j \in 1..Len(secrets) :
        j # k /\ secrets[j].path = secrets[k].path => secrets[j].encrypted = "None"

\* what a fresh _detect_encryption answers for the file of secrets[k] now
DetectedNow(k) == DetectEncryption(Bytes(disk[File(secrets[k].path)]))

\* C16: whenever the cached flag of a Secret that is the only user of its
\* file is set, it equals what a fresh _detect_encryption of the file's
\* current content returns.
C16_FlagNeverStale ==
    \A k \in 1..Len(secrets) :
        secrets[k].encrypted # "None" /\ SoleUser(k) /\ pc # "crashed"
            => secrets[k].encrypted = DetectedNow(k)

\* the engine itself failed on an input it can handle
EngineFailed == err.msg \in {"encryption failed", "decryption failed"}

\* C12: encrypt() followed by decrypt() on the same Secret, for a plaintext
\* file and a non-empty set of keys of the keyring: unless the engine itself
\* fails, neither call raises, and when both have returned the file holds
\* exactly the plaintext it started with and no temporary file is left.
C12_RoundTrip ==
    cmd = "roundtrip" =>
        /\ pc = "error" => EngineFailed
        /\ pc = "done" => /\ disk[File("a.env")] = disk0[File("a.env")]
                          /\ Temps = {}

\* the engine created the key: the public half is in the keyring from then on
KeyCreated == keyring.public

\* the output file holds the secret key
KeyInFile == key_files[KeyFile] = "secret key"

\* C15: in every state after the engine created the key, the private key is
\* in the keyring or in the output file; when generate has returned, it is in
\* the file and no longer in the keyring, and the public half is in the keyring.
C15_PrivateKeyNeverLost ==
    cmd = "generate" /\ KeyCreated =>
        /\ keyring.private \/ KeyInFile
        /\ pc = "done" => KeyInFile /\ ~keyring.private /\ keyring.public

\* the path, or a directory above it, matches an exclusion glob
ExcludedOrBeneath(path) == \E k \in 1..Len(path) : IsExcludedPath(SubSeq(path, 1, k))

\* the files that exist under config.dir
ExistingFiles == {f \in FilePaths : Len(f) = 1 \/ f[1] \in Range(dir_names)}

\* C14: no path all_secrets has yielded is excluded or lies beneath an
\* excluded directory, and when the walk has ended every sub-directory of the
\* listing that matches an exclusion glob was pruned from it.
C14_ExcludedNeverYielded ==
    cmd = "check" =>
        /\ \A k \in 1..Len(yielded) : ~ExcludedOrBeneath(yielded[k])
        /\ pc = "done" =>
              \A d \in Range(dir_names) :
                  IsExcludedPath(<<d>>) => d \notin Range(Prune(<<>>, dir_names, 1))

\* the files check has to scan: those under args.dir that are not excluded
ToScan == {f \in ExistingFiles : IsPrefix(check_dir, f) /\ ~ExcludedOrBeneath(f)}

\* the scanned files that are classified as not encrypted
NotEncrypted == {f \in ToScan : DetectEncryption(Bytes(contents[f])) = "False"}

\* C11: when check has returned, it has scanned exactly the non-excluded
\* files under args.dir, printed the path of each of them that is classified
\* as not encrypted and no other path, and returned 2 if there is such a
\* file and 0 if there is none.
C11_CheckScansDir ==
    cmd = "check" /\ pc = "done" =>
        /\ Range(yielded) = ToScan
        /\ Range(printed) = NotEncrypted
        /\ exit = IF NotEncrypted # {} THEN 2 ELSE 0

============================================================================
